---- MODULE Spec2Model ----
(***************************************************************************)
(* The image converter: the helpers of utils/imageProcessing.ts             *)
(* (convertImageFormat, resizeImage, getImageDimensions, processBatch) and  *)
(* the step-driven state container of App.tsx (src/unnamed/part_000).       *)
(*                                                                          *)
(* Strings that the code transforms (file names, format tags) are tuples    *)
(* of one-character strings, so that toLowerCase, lastIndexOf and substring *)
(* are computed and not assumed.  An optional value (width?, height?,       *)
(* quality?, result?, error?) is a set with at most one element: {} is      *)
(* undefined, {v} is the value v.                                           *)
(***************************************************************************)
EXTENDS Integers, Sequences, FiniteSets, TLC

\* ------------------------------------------------------------------ bounds

\* Files created over one behaviour of Spec (over all drops).
MaxFiles == 3
\* Conversion runs that have not returned, or have and are not yet forgotten,
\* at one time.
MaxRuns == 1
\* Files in the list when BatchSpec starts its conversion run.
MaxBatchFiles == 4
\* Changes of the options (format, size, quality) that change their value,
\* made over one behaviour.
MaxEdits == 1
\* Characters of a file name handed to convertImageFormat in ConvSpec.
MaxNameLen == 3

\* ----------------------------------------------------------- JS primitives

Undefined == {}

Some(v) == {v}

Get(o) == CHOOSE v \in o : TRUE

\* JavaScript truthiness of an optional number: undefined and 0 are falsy.
Truthy(o) == o # {} /\ o # {0}

\* a || b on optional numbers
Or(a, b) == IF Truthy(a) THEN a ELSE b

Min(a, b) == IF a < b THEN a ELSE b

Max(a, b) == IF a > b THEN a ELSE b

UpperChars == <<"A", "B", "C", "D", "E", "F", "G", "H", "I", "J", "K", "L", "M",
                "N", "O", "P", "Q", "R", "S", "T", "U", "V", "W", "X", "Y", "Z">>

LowerChars == <<"a", "b", "c", "d", "e", "f", "g", "h", "i", "j", "k", "l", "m",
                "n", "o", "p", "q", "r", "s", "t", "u", "v", "w", "x", "y", "z">>

LowerChar(c) ==
  IF \E i \in 1..Len(UpperChars) : UpperChars[i] = c
  THEN LowerChars[CHOOSE i \in 1..Len(UpperChars) : UpperChars[i] = c]
  ELSE c

UpperChar(c) ==
  IF \E i \in 1..Len(LowerChars) : LowerChars[i] = c
  THEN UpperChars[CHOOSE i \in 1..Len(LowerChars) : LowerChars[i] = c]
  ELSE c

\* String.prototype.toLowerCase / toUpperCase
ToLowerCase(s) == [i \in 1..Len(s) |-> LowerChar(s[i])]

ToUpperCase(s) == [i \in 1..Len(s) |-> UpperChar(s[i])]

\* String.prototype.lastIndexOf(c): the 0-based index of the last c, or -1.
LastIndexOf(s, c) ==
  IF \E i \in 1..Len(s) : s[i] = c
  THEN (CHOOSE i \in 1..Len(s) : s[i] = c /\ \A j \in (i+1)..Len(s) : s[j] # c) - 1
  ELSE -1

\* String.prototype.indexOf(c): the 0-based index of the first c, or -1.
IndexOf(s, c) ==
  IF \E i \in 1..Len(s) : s[i] = c
  THEN (CHOOSE i \in 1..Len(s) : s[i] = c /\ \A j \in 1..(i-1) : s[j] # c) - 1
  ELSE -1

\* String.prototype.substring(a, b): arguments below 0 count as 0, above the
\* length as the length, and are swapped when a > b.
Substring(s, a, b) ==
  LET ca == Max(0, Min(a, Len(s)))
      cb == Max(0, Min(b, Len(s)))
      lo == Min(ca, cb)
      hi == Max(ca, cb)
  IN  SubSeq(s, lo + 1, hi)

\* Array.prototype.slice(a, b) for 0 <= a <= b.
Slice(s, a, b) == SubSeq(s, a + 1, Min(b, Len(s)))

\* ------------------------------------------------- imageProcessing.ts helpers

jpg == <<"j", "p", "g">>
jpeg == <<"j", "p", "e", "g">>
png == <<"p", "n", "g">>
webp == <<"w", "e", "b", "p">>
gif == <<"g", "i", "f">>
bmp == <<"b", "m", "p">>
tiff == <<"t", "i", "f", "f">>
ico == <<"i", "c", "o">>
heif == <<"h", "e", "i", "f">>
pdf == <<"p", "d", "f">>

\* The own keys of formatMap and their values.
formatMap ==
  [k \in {jpg, jpeg, png, webp, gif, bmp, tiff, ico, heif, pdf} |->
     CASE k = jpg -> "image/jpeg"
       [] k = jpeg -> "image/jpeg"
       [] k = png -> "image/png"
       [] k = webp -> "image/webp"
       [] k = gif -> "image/gif"
       [] k = bmp -> "image/bmp"
       [] k = tiff -> "image/tiff"
       [] k = ico -> "image/x-icon"
       [] k = heif -> "image/heif"
       [] k = pdf -> "application/pdf"]

\* formatMap is an object literal: a key that is not its own is looked up on
\* Object.prototype, where these two all-lower-case names are found.
ProtoKeys == {<<"c", "o", "n", "s", "t", "r", "u", "c", "t", "o", "r">>,
              <<"_", "_", "p", "r", "o", "t", "o", "_", "_">>}

\* formatMap[key]: the own value, an inherited (truthy, non-string) member, or
\* undefined.
FormatMapGet(key) ==
  IF key \in DOMAIN formatMap THEN Some(formatMap[key])
  ELSE IF key \in ProtoKeys THEN Some("[Object.prototype member]")
  ELSE Undefined

\* A mutant of getMimeType: the lookup without toLowerCase.
getMimeTypeCaseSensitive(format) ==
  LET v == FormatMapGet(format) IN IF v # {} THEN Get(v) ELSE "image/jpeg"

\* A mutant of getMimeType: pdf has no entry and takes the default.
getMimeTypeNoPdf(format) ==
  LET k == ToLowerCase(format)
      v == IF k = pdf THEN Undefined ELSE FormatMapGet(k)
  IN  IF v # {} THEN Get(v) ELSE "image/jpeg"

\* getMimeType: formatMap[format.toLowerCase()] || 'image/jpeg'.  Every value
\* the lookup can give is truthy, so || takes the default only for undefined.
getMimeType(format) ==
  LET v == FormatMapGet(ToLowerCase(format))
  IN  IF v # {} THEN Get(v) ELSE "image/jpeg"

\* A mutant of getOutputFileName: the first dot ends the base name.
getOutputFileNameFirstDot(originalName, format) ==
  LET cut == Substring(originalName, 0, IndexOf(originalName, "."))
      baseName == IF cut # <<>> THEN cut ELSE originalName
  IN  baseName \o <<".">> \o ToLowerCase(format)

\* getOutputFileName: (originalName.substring(0, lastIndexOf('.')) ||
\* originalName) + '.' + format.toLowerCase(); the empty string is falsy.
getOutputFileName(originalName, format) ==
  LET cut == Substring(originalName, 0, LastIndexOf(originalName, "."))
      baseName == IF cut # <<>> THEN cut ELSE originalName
  IN  baseName \o <<".">> \o ToLowerCase(format)

\* A File: the original it was made from, its name and declared type, the box
\* it was resized to (if it was) and the quality it was encoded at, in percent
\* (if this code encoded it).
DigitChars == <<"1", "2", "3", "4", "5", "6", "7", "8", "9">>

\* The files a user can add: file number f is named <f>.PNG.
FileName(f) == <<DigitChars[f], ".", "P", "N", "G">>

UserFile(f) ==
  [src |-> f, name |-> FileName(f), type |-> "image/png",
   resized |-> Undefined, quality |-> Undefined]

\* The pixel dimensions an image element reports for file f once it is loaded.
ImgWidth(f) == 100 + f

ImgHeight(f) == 200 + f

\* A mutant of EncoderQuality: the default is used whatever the option says.
EncoderQualityDefault(options) == 80

\* The third argument of canvas.toBlob, in percent:
\* options.quality ? options.quality / 100 : 0.8
EncoderQuality(options) ==
  IF Truthy(options.quality) THEN Get(options.quality) ELSE 80

\* A mutant of ConvertedFile: the output keeps the input's name.
ConvertedFileKeepName(file, options) ==
  [src |-> file.src, name |-> file.name, type |-> getMimeType(options.format),
   resized |-> file.resized, quality |-> Some(EncoderQuality(options))]

\* A mutant of ConvertedFile: the output keeps the input's declared type.
ConvertedFileKeepType(file, options) ==
  [src |-> file.src, name |-> getOutputFileName(file.name, options.format),
   type |-> file.type,
   resized |-> file.resized, quality |-> Some(EncoderQuality(options))]

\* The File convertImageFormat resolves with when the context exists and the
\* image loads.
ConvertedFile(file, options) ==
  [src |-> file.src,
   name |-> getOutputFileName(file.name, options.format),
   type |-> getMimeType(options.format),
   resized |-> file.resized,
   quality |-> Some(EncoderQuality(options))]

\* The File resizeImage resolves with: the library's output under the
\* original name and type.
ResizedFile(file, width, height) ==
  [file EXCEPT !.resized = Some(<<width, height>>)]

\* ------------------------------------------------------------ App.tsx state

VARIABLES
  state,      \* the AppState held by useState: step, files, options, progress
  urls,       \* preview object URLs: those created and those revoked
  nextFile,   \* the number of the next file a user adds
  runs,       \* the startConversion calls since the last reset and those
              \* still in flight, each with its closure
  edits,      \* the number of option changes made so far
  conv,       \* a call of convertImageFormat made outside a run
  validation  \* a call of runAllValidationTests

vars == <<state, urls, nextFile, runs, edits, conv, validation>>

steps == <<"home", "format", "size", "confirm", "progress", "download">>

\* steps.indexOf(step), 0-based
StepIndex(step) == (CHOOSE i \in 1..Len(steps) : steps[i] = step) - 1

DefaultOptions ==
  [format |-> jpg, quality |-> Some(80), width |-> Undefined,
   height |-> Undefined, maintainAspectRatio |-> Some(TRUE)]

\* The argument of useState.
InitialState ==
  [step |-> "home", files |-> <<>>, options |-> DefaultOptions, progress |-> 0]

\* The entry onDrop makes of an accepted file; its preview URL is numbered
\* like the file.
NewEntry(f) ==
  [file |-> UserFile(f), preview |-> f, status |-> "pending",
   result |-> Undefined, error |-> Undefined]

\* A mutant of AddFiles: the new entries replace the list.
AddFilesReplace(prevState, newFiles) ==
  [prevState EXCEPT
     !.files = newFiles,
     !.step = IF prevState.step = "home" THEN "format" ELSE prevState.step]

\* A mutant of AddFiles: the new entries are put in front of the list.
AddFilesPrepend(prevState, newFiles) ==
  [prevState EXCEPT
     !.files = newFiles \o prevState.files,
     !.step = IF prevState.step = "home" THEN "format" ELSE prevState.step]

\* The updater of onDrop.
AddFiles(prevState, newFiles) ==
  [prevState EXCEPT
     !.files = prevState.files \o newFiles,
     !.step = IF prevState.step = "home" THEN "format" ELSE prevState.step]

\* A mutant of NextStepOf: no clamp at the last step, and two steps at once.
NextStepSkipping(prevState) ==
  [prevState EXCEPT
     !.step = steps[Min(StepIndex(prevState.step) + 2, Len(steps) - 1) + 1]]

\* The updater of nextStep.
NextStepOf(prevState) ==
  [prevState EXCEPT
     !.step = steps[Min(StepIndex(prevState.step) + 1, Len(steps) - 1) + 1]]

\* The updater of prevStep.
PrevStepOf(prevState) ==
  [prevState EXCEPT !.step = steps[Max(StepIndex(prevState.step) - 1, 0) + 1]]

\* The first updater of startConversion.
BeginProgress(prevState) ==
  [prevState EXCEPT !.step = "progress", !.progress = 0]

\* The second updater of startConversion.
MarkProcessing(prevState) ==
  [prevState EXCEPT
     !.files = [x \in 1..Len(prevState.files) |->
                  [prevState.files[x] EXCEPT !.status = "processing"]]]

\* Math.round((processedCount / totalFiles) * 100) for totalFiles > 0
ProgressOf(processedCount, totalFiles) ==
  (200 * processedCount + totalFiles) \div (2 * totalFiles)

\* The updater after a processBatch call resolved: result j goes to the entry
\* at i + j, if there is one.
UpdateProcessed(prevState, i, results, processedCount, totalFiles) ==
  [prevState EXCEPT
     !.files = [x \in 1..Len(prevState.files) |->
                  IF x - 1 >= i /\ x - 1 - i < Len(results)
                  THEN [prevState.files[x] EXCEPT
                          !.status = "completed",
                          !.result = Some(results[x - i])]
                  ELSE prevState.files[x]],
     !.progress = ProgressOf(processedCount + Len(results), totalFiles)]

\* The updater after a processBatch call rejected: the entries of the batch
\* are marked.
UpdateFailed(prevState, i, batchLength, processedCount, totalFiles) ==
  [prevState EXCEPT
     !.files = [x \in 1..Len(prevState.files) |->
                  IF x - 1 >= i /\ x - 1 - i < batchLength
                  THEN [prevState.files[x] EXCEPT
                          !.status = "error",
                          !.error = Some("Failed to process image")]
                  ELSE prevState.files[x]],
     !.progress = ProgressOf(processedCount + batchLength, totalFiles)]

\* A mutant of Finish: the run ends on the progress step.
FinishNoStep(prevState) == [prevState EXCEPT !.progress = 100]

\* The last updater of startConversion.
Finish(prevState) == [prevState EXCEPT !.step = "download", !.progress = 100]

\* The state startOver sets.
ResetState ==
  [step |-> "home", files |-> <<>>, options |-> DefaultOptions, progress |-> 0]

\* --------------------------------------- startConversion and processBatch

batchSize == 3

\* The positions at which a run waits for a helper's promise: the image load
\* of getImageDimensions, readAndCompressImage, the image load and the
\* toBlob callback of convertImageFormat; "done" once startConversion returned.
AwaitPcs == {"dims", "resize", "load", "blob", "done"}

\* A startConversion call: what its closure captured (the rendered
\* state.files and state.options), its locals and those of the processBatch
\* call it is waiting for.  calls, settled, failed and lastCall record what
\* happened: the number of processBatch calls made and of those that settled,
\* the positions (in files) of the files whose processing threw, the files
\* whose processing was begun, in order, the fourth argument of the last
\* resizeImage call, and the last processBatch call that settled.
NewRun(rendered) ==
  [files |-> [x \in 1..Len(rendered.files) |-> rendered.files[x].file],
   options |-> rendered.options,
   totalFiles |-> Len(rendered.files),
   processedCount |-> 0,
   i |-> 0,
   batch |-> <<>>,
   k |-> 0,
   results |-> <<>>,
   processedFile |-> Undefined,
   targetWidth |-> Undefined,
   targetHeight |-> Undefined,
   pc |-> "loop",
   calls |-> 0,
   settled |-> 0,
   failed |-> {},
   started |-> <<>>,
   aspectFlag |-> Undefined,
   lastCall |-> Undefined]

\* options.maintainAspectRatio || true
AspectFlag(options) ==
  IF options.maintainAspectRatio # {} /\ Get(options.maintainAspectRatio)
  THEN Get(options.maintainAspectRatio)
  ELSE TRUE

\* A mutant of LoopBatch: the slice is one entry short.
LoopBatchShort(r) == Slice(r.files, r.i, r.i + batchSize - 1)

\* state.files.slice(i, i + batchSize).map(item => item.file)
LoopBatch(r) == Slice(r.files, r.i, r.i + batchSize)

\* A mutant of NeedsResize: only a width asks for a resize.
NeedsResizeWidthOnly(options) == Truthy(options.width)

\* options.width || options.height
NeedsResize(options) == Truthy(options.width) \/ Truthy(options.height)

\* A mutant of FileFailed: the catch of processBatch throws the error on.
FileFailedRethrow(r) ==
  [r EXCEPT !.failed = @ \cup {r.i + r.k}, !.pc = "rejected"]

\* A mutant of FileFailed: the file that failed is tried again.
FileFailedRetry(r) ==
  [r EXCEPT !.failed = @ \cup {r.i + r.k}, !.pc = "file"]

\* The catch of processBatch: the error is logged and the loop goes on with
\* the next file.
FileFailed(r) ==
  [r EXCEPT !.failed = @ \cup {r.i + r.k}, !.k = @ + 1, !.pc = "file"]

\* A mutant of FileDone: the result is put in front of the earlier ones.
FileDonePrepend(r) ==
  [r EXCEPT !.results = <<ConvertedFile(Get(r.processedFile), r.options)>> \o @,
            !.k = @ + 1, !.pc = "file"]

\* results.push(processedFile) with the File convertImageFormat resolved with.
FileDone(r) ==
  [r EXCEPT !.results = Append(@, ConvertedFile(Get(r.processedFile), r.options)),
            !.k = @ + 1, !.pc = "file"]

\* The call of resizeImage(processedFile, targetWidth, targetHeight, flag).
CallResize(r) ==
  [r EXCEPT !.pc = "resize", !.aspectFlag = Some(AspectFlag(r.options))]

\* A mutant of DimensionsResolved: the original's height is taken for a
\* missing width.
DimensionsResolvedSwapped(r) ==
  LET file == Get(r.processedFile) IN
  [r EXCEPT !.targetWidth = Or(r.options.width, Some(ImgHeight(file.src))),
            !.targetHeight = Or(r.options.height, Some(ImgWidth(file.src)))]

\* targetWidth = options.width || dimensions.width, and the same for height
DimensionsResolved(r) ==
  LET file == Get(r.processedFile) IN
  [r EXCEPT !.targetWidth = Or(r.options.width, Some(ImgWidth(file.src))),
            !.targetHeight = Or(r.options.height, Some(ImgHeight(file.src)))]

\* A mutant of AfterResize: the conversion is given the original file.
AfterResizeOriginal(r) == [r EXCEPT !.pc = "convert"]

\* processedFile = await resizeImage(...)
AfterResize(r) ==
  [r EXCEPT !.processedFile =
              Some(ResizedFile(Get(r.processedFile),
                               Get(r.targetWidth), Get(r.targetHeight))),
            !.pc = "convert"]

\* The head of the loop body of processBatch for file batch[k], up to its
\* first helper call.
BeginFile(r) ==
  LET file == r.batch[r.k + 1]
      r1 == [r EXCEPT !.processedFile = Some(file),
                      !.started = Append(@, file.src),
                      !.targetWidth = r.options.width,
                      !.targetHeight = r.options.height]
  IN  IF NeedsResize(r.options)
      THEN IF ~Truthy(r1.targetWidth) \/ ~Truthy(r1.targetHeight)
           THEN [r1 EXCEPT !.pc = "dims"]
           ELSE CallResize(r1)
      ELSE [r1 EXCEPT !.pc = "convert"]

\* What is recorded of the processBatch call that settles.
SettledCall(r, outcome) ==
  Some([files |-> r.batch, outcome |-> outcome, results |-> r.results,
        failed |-> {x - r.i : x \in {y \in r.failed : y >= r.i}}])

\* One step of a run that is not waiting: w.st is the state the updaters have
\* produced so far, w.r the run, w.n the number of coming getContext('2d')
\* calls that return null.
RunStep(w) ==
  LET r == w.r IN
  CASE r.pc = "loop" ->
         IF r.i < Len(r.files)
         THEN [w EXCEPT !.r = [r EXCEPT
                 !.batch = LoopBatch(r), !.k = 0, !.results = <<>>,
                 !.pc = "file", !.calls = @ + 1]]
         ELSE [w EXCEPT !.st = Finish(w.st), !.r = [r EXCEPT !.pc = "done"]]
    [] r.pc = "file" ->
         IF r.k < Len(r.batch)
         THEN [w EXCEPT !.r = BeginFile(r)]
         ELSE [w EXCEPT !.r = [r EXCEPT !.pc = "resolved"]]
    [] r.pc = "convert" ->
         IF w.n > 0
         THEN [w EXCEPT !.r = FileFailed(r), !.n = @ - 1]
         ELSE [w EXCEPT !.r = [r EXCEPT !.pc = "load"]]
    [] r.pc = "resolved" ->
         [w EXCEPT
            !.st = UpdateProcessed(w.st, r.i, r.results, r.processedCount,
                                   r.totalFiles),
            !.r = [r EXCEPT
                     !.processedCount = @ + Len(r.results),
                     !.i = @ + batchSize,
                     !.pc = "loop",
                     !.settled = @ + 1,
                     !.lastCall = SettledCall(r, "resolved")]]
    [] r.pc = "rejected" ->
         [w EXCEPT
            !.st = UpdateFailed(w.st, r.i, Len(r.batch), r.processedCount,
                                r.totalFiles),
            !.r = [r EXCEPT
                     !.processedCount = @ + Len(r.batch),
                     !.i = @ + batchSize,
                     !.pc = "loop",
                     !.settled = @ + 1,
                     !.lastCall = SettledCall(r, "rejected")]]

RECURSIVE Advance(_)
\* A run goes on until it waits for a helper or has returned.
Advance(w) ==
  IF w.r.pc \in AwaitPcs THEN w
  ELSE CHOOSE v \in {Advance(x) : x \in {RunStep(w)}} : TRUE

\* ------------------------------------------------------------- the handlers

\* The labels of the format step's buttons that the model presses (the step
\* lists JPEG, PNG, GIF, TIFF, WEBP, BMP, ICO, HEIF and PDF).
FormatLabels == {<<"P", "D", "F">>}

\* What the number inputs of the size step are set to: 0 (or empty) or a
\* number.
SizeInputs == {Some(0), Some(50)}

\* What the slider of the size step is set to (10 to 200 in steps of 10).
QualityInputs == {200}

\* parseInt(e.target.value) || undefined
ParsedSize(input) == IF Truthy(input) THEN input ELSE Undefined

\* No call of convertImageFormat outside a run.
NoCall ==
  [file |-> UserFile(1), options |-> DefaultOptions, pc |-> "idle",
   ctx |-> TRUE, loaded |-> Undefined, raised |-> Undefined,
   result |-> Undefined, error |-> Undefined,
   imageUrl |-> "none", dimensions |-> Undefined]

\* No call of runAllValidationTests.
NoValidation ==
  [pc |-> "idle", test |-> 0, testFile |-> Undefined, call |-> Undefined,
   networkBefore |-> 0, resources |-> 0, results |-> <<>>, threw |-> {},
   allTestsPassed |-> Undefined]

Init ==
  /\ state = InitialState
  /\ urls = [created |-> {}, revoked |-> {}]
  /\ nextFile = 1
  /\ runs = <<>>
  /\ edits = 0
  /\ validation = NoValidation
  /\ conv = NoCall

\* onDrop(acceptedFiles), from the dropzone the home step renders;
\* acceptedFiles is empty when every dropped file was refused.
OnDrop ==
  /\ state.step = "home"
  /\ \E n \in 0..(MaxFiles + 1 - nextFile) :
       LET newFiles == [x \in 1..n |-> NewEntry(nextFile + x - 1)] IN
       /\ state' = AddFiles(state, newFiles)
       /\ urls' = [urls EXCEPT
                     !.created = @ \cup {newFiles[x].preview : x \in 1..n}]
       /\ nextFile' = nextFile + n
  /\ UNCHANGED <<validation, conv, runs, edits>>

\* handleFormatChange(format.toLowerCase()), from a button of the format step
HandleFormatChange ==
  /\ state.step = "format"
  /\ edits < MaxEdits
  /\ \E label \in FormatLabels :
       state' = [state EXCEPT !.options.format = ToLowerCase(label)]
  /\ edits' = IF state' = state THEN edits ELSE edits + 1
  /\ UNCHANGED <<validation, conv, urls, nextFile, runs>>

\* handleSizeChange(width, height), from the two inputs of the size step
HandleSizeChange ==
  /\ state.step = "size"
  /\ edits < MaxEdits
  /\ \E input \in SizeInputs :
       \/ state' = [state EXCEPT !.options.width = ParsedSize(input)]
       \/ state' = [state EXCEPT !.options.height = ParsedSize(input)]
  /\ edits' = IF state' = state THEN edits ELSE edits + 1
  /\ UNCHANGED <<validation, conv, urls, nextFile, runs>>

\* handleQualityChange(quality), from the slider of the size step
HandleQualityChange ==
  /\ state.step = "size"
  /\ edits < MaxEdits
  /\ \E quality \in QualityInputs :
       state' = [state EXCEPT !.options.quality = Some(quality)]
  /\ edits' = IF state' = state THEN edits ELSE edits + 1
  /\ UNCHANGED <<validation, conv, urls, nextFile, runs>>

\* nextStep, from the Continue button of the format and size steps
NextStep ==
  /\ state.step \in {"format", "size"}
  /\ state' = NextStepOf(state)
  /\ UNCHANGED <<validation, conv, urls, nextFile, runs, edits>>

\* prevStep, from the Back button of the format, size and confirm steps
PrevStep ==
  /\ state.step \in {"format", "size", "confirm"}
  /\ state' = PrevStepOf(state)
  /\ UNCHANGED <<validation, conv, urls, nextFile, runs, edits>>

\* The runs that have not returned; one that has is forgotten at the next
\* start and at the next reset.
InFlight == SelectSeq(runs, LAMBDA r : r.pc # "done")

\* startConversion, from the button of the confirm step, up to its first
\* await (or to its end when there is nothing to wait for)
StartConversion ==
  /\ state.step = "confirm"
  /\ Len(InFlight) < MaxRuns
  /\ \E n \in 0..Len(state.files) :
       LET w == Advance([st |-> MarkProcessing(BeginProgress(state)),
                         r |-> NewRun(state), n |-> n]) IN
       /\ w.n = 0
       /\ state' = w.st
       /\ runs' = Append(InFlight, w.r)
  /\ UNCHANGED <<validation, conv, urls, nextFile, edits>>

\* A mutant of RevokePreviews: the preview of the last entry is not revoked.
RevokeAllButLast(u, files) ==
  [u EXCEPT !.revoked = @ \cup {files[x].preview : x \in 1..(Len(files) - 1)}]

\* state.files.forEach(file => URL.revokeObjectURL(file.preview))
RevokePreviews(u, files) ==
  [u EXCEPT !.revoked = @ \cup {files[x].preview : x \in 1..Len(files)}]

\* startOver, from Cancel on the progress step and from Convert More Images
\* on the download step
StartOver ==
  /\ state.step \in {"progress", "download"}
  /\ urls' = RevokePreviews(urls, state.files)
  /\ state' = ResetState
  /\ runs' = InFlight
  /\ UNCHANGED <<validation, conv, nextFile, edits>>

\* The run goes on from a settled helper call to its next await.
Resume(run, r, n) ==
  LET w == Advance([st |-> state, r |-> r, n |-> n]) IN
  /\ w.n = 0
  /\ state' = w.st
  /\ runs' = [runs EXCEPT ![run] = w.r]
  /\ UNCHANGED <<validation, conv, urls, nextFile, edits>>

\* The files of run r that are still to come after the current one.
Remaining(r) == Len(r.files) - (r.i + r.k + 1)

\* The image of getImageDimensions loaded, or failed to.
DimensionsSettled ==
  \E run \in 1..Len(runs), ok \in BOOLEAN :
    LET r == runs[run] IN
    /\ r.pc = "dims"
    /\ IF ok
       THEN Resume(run, CallResize(DimensionsResolved(r)), 0)
       ELSE Resume(run, FileFailed(r), 0)

\* readAndCompressImage resolved or rejected.
ResizeSettled ==
  \E run \in 1..Len(runs), ok \in BOOLEAN :
    LET r == runs[run] IN
    /\ r.pc = "resize"
    /\ IF ok
       THEN \E n \in 0..1 : Resume(run, AfterResize(r), n)
       ELSE Resume(run, FileFailed(r), 0)

\* The image of convertImageFormat loaded (it is drawn and toBlob is called),
\* or failed to.
ImageLoadSettled ==
  \E run \in 1..Len(runs), ok \in BOOLEAN :
    LET r == runs[run] IN
    /\ r.pc = "load"
    /\ IF ok
       THEN Resume(run, [r EXCEPT !.pc = "blob"], 0)
       ELSE \E n \in 0..Remaining(r) : Resume(run, FileFailed(r), n)

\* The toBlob callback ran: convertImageFormat resolves.
BlobSettled ==
  \E run \in 1..Len(runs) :
    LET r == runs[run] IN
    /\ r.pc = "blob"
    /\ \E n \in 0..Remaining(r) : Resume(run, FileDone(r), n)

Next ==
  \/ OnDrop
  \/ HandleFormatChange
  \/ HandleSizeChange
  \/ HandleQualityChange
  \/ NextStep
  \/ PrevStep
  \/ StartConversion
  \/ StartOver
  \/ DimensionsSettled
  \/ ResizeSettled
  \/ ImageLoadSettled
  \/ BlobSettled

Spec == Init /\ [][Next]_vars

\* A helper call that was made settles.
Fairness ==
  WF_vars(DimensionsSettled \/ ResizeSettled \/ ImageLoadSettled \/ BlobSettled)

FairSpec == Spec /\ Fairness

\* The option values the handlers can produce from the defaults.
ReachableOptions ==
  {[format |-> f, quality |-> q, width |-> w, height |-> h,
    maintainAspectRatio |-> Some(TRUE)] :
     f \in {jpg} \cup {ToLowerCase(label) : label \in FormatLabels},
     q \in {Some(80)} \cup {Some(quality) : quality \in QualityInputs},
     w \in {ParsedSize(input) : input \in SizeInputs},
     h \in {ParsedSize(input) : input \in SizeInputs}}

\* The confirm step as the handlers leave it, with any number of files in
\* the list and any options.
BatchInit ==
  /\ \E m \in 0..MaxBatchFiles, options \in ReachableOptions :
       state = [step |-> "confirm",
                files |-> [x \in 1..m |-> NewEntry(x)],
                options |-> options,
                progress |-> 0]
  /\ urls = [created |-> {state.files[x].preview : x \in 1..Len(state.files)},
             revoked |-> {}]
  /\ nextFile = Len(state.files) + 1
  /\ runs = <<>>
  /\ edits = 0
  /\ validation = NoValidation
  /\ conv = NoCall

BatchNext ==
  \/ StartConversion
  \/ DimensionsSettled
  \/ ResizeSettled
  \/ ImageLoadSettled
  \/ BlobSettled

\* One conversion run, from the click on Start Conversion to its end.
BatchSpec == BatchInit /\ [][BatchNext]_vars

\* What a caller of processBatch can pass as options.maintainAspectRatio.
AspectOptions == {Undefined, Some(TRUE), Some(FALSE)}

\* A run as in BatchInit, whose options have any value of the optional
\* maintainAspectRatio that the ConversionOptions type allows.
AspectInit ==
  /\ \E m \in 0..MaxBatchFiles, options \in ReachableOptions,
        aspect \in AspectOptions :
       state = [step |-> "confirm",
                files |-> [x \in 1..m |-> NewEntry(x)],
                options |-> [options EXCEPT !.maintainAspectRatio = aspect],
                progress |-> 0]
  /\ urls = [created |-> {state.files[x].preview : x \in 1..Len(state.files)},
             revoked |-> {}]
  /\ nextFile = Len(state.files) + 1
  /\ runs = <<>>
  /\ edits = 0
  /\ validation = NoValidation
  /\ conv = NoCall

\* processBatch, called with any options of its parameter's type.
AspectSpec == AspectInit /\ [][BatchNext]_vars

\* ------------------------------------------- convertImageFormat on its own

\* The characters of the file names ConvSpec converts.
NameChars == {"a", "B", "."}

Names == UNION {[1..n -> NameChars] : n \in 0..MaxNameLen}

Capitalized(s) == [x \in 1..Len(s) |-> IF x = 1 THEN UpperChar(s[x]) ELSE s[x]]

svg == <<"s", "v", "g">>

\* The format tags ConvSpec converts to: the keys of formatMap, a tag that is
\* no key, the empty tag and the inherited names, in three letter cases.
FormatTags ==
  LET lower == (DOMAIN formatMap) \cup {svg, <<>>} \cup ProtoKeys
  IN  lower \cup {ToUpperCase(t) : t \in lower} \cup {Capitalized(t) : t \in lower}

\* The quality options ConvSpec converts with: absent, and percentages from
\* 0 to 100 and above.
Qualities == {Undefined, Some(0), Some(1), Some(80), Some(100), Some(200)}

\* A mutant of ConvFailed: the catch logs the error and returns the input.
ConvFailedSwallow(c) ==
  [c EXCEPT !.pc = "resolved", !.result = Some(c.file)]

\* A mutant of ConvFailed: the catch throws an error of its own.
ConvFailedWrapped(c) ==
  [c EXCEPT !.pc = "rejected", !.error = Some("Conversion failed")]

\* The catch of convertImageFormat: the error raised in the try block is
\* logged and thrown again, so the call rejects with it.
ConvFailed(c) == [c EXCEPT !.pc = "rejected", !.error = c.raised]

\* convertImageFormat(file, options) up to its first await: it throws (and
\* its catch rethrows) when getContext('2d') gave null, else it waits for
\* the image to load.  ctx and loaded record whether the context was made
\* and whether the image loaded, raised the error thrown in the try block;
\* imageUrl is the object URL the call makes of the file once it has the
\* context: "none" before, then "live", then "revoked".
ConvertCall(file, options, ctx) ==
  LET c == [file |-> file, options |-> options, pc |-> "load", ctx |-> ctx,
            loaded |-> Undefined, raised |-> Undefined,
            result |-> Undefined, error |-> Undefined,
            imageUrl |-> IF ctx THEN "live" ELSE "none",
            dimensions |-> Undefined]
  IN  IF ctx THEN c
      ELSE ConvFailed([c EXCEPT !.raised = Some("Could not create canvas context")])

\* getImageDimensions(file) up to its promise: an object URL is made of
\* the file and set as the source of an image.
DimensionsCall(file) ==
  [file |-> file, options |-> DefaultOptions, pc |-> "dims", ctx |-> TRUE,
   loaded |-> Undefined, raised |-> Undefined,
   result |-> Undefined, error |-> Undefined,
   imageUrl |-> "live", dimensions |-> Undefined]

ConvInit ==
  /\ state = InitialState
  /\ urls = [created |-> {}, revoked |-> {}]
  /\ nextFile = 1
  /\ runs = <<>>
  /\ edits = 0
  /\ validation = NoValidation
  /\ \/ \E name \in Names, format \in FormatTags, quality \in Qualities,
           ctx \in BOOLEAN :
          conv = ConvertCall([UserFile(1) EXCEPT !.name = name],
                             [DefaultOptions EXCEPT !.format = format,
                                                    !.quality = quality], ctx)
     \/ \E f \in 1..MaxFiles : conv = DimensionsCall(UserFile(f))

\* The image loaded (it is drawn, the object URL is revoked and toBlob is
\* called), or failed to (the error event rejects, the catch logs and
\* rethrows it).
ConvLoadSettled ==
  /\ conv.pc = "load"
  /\ \/ conv' = [conv EXCEPT !.pc = "blob", !.loaded = Some(TRUE),
                              !.imageUrl = "revoked"]
     \/ conv' = ConvFailed([conv EXCEPT !.loaded = Some(FALSE),
                                        !.raised = Some("error event")])
  /\ UNCHANGED <<validation, state, urls, nextFile, runs, edits>>

\* The toBlob callback ran: the call resolves with the new File.
ConvBlobSettled ==
  /\ conv.pc = "blob"
  /\ conv' = [conv EXCEPT !.pc = "resolved",
                          !.result = Some(ConvertedFile(conv.file, conv.options))]
  /\ UNCHANGED <<validation, state, urls, nextFile, runs, edits>>

\* The image of getImageDimensions loaded or failed to: either handler
\* revokes the object URL, then resolves with the dimensions or rejects.
ConvDimensionsSettled ==
  /\ conv.pc = "dims"
  /\ \/ conv' = [conv EXCEPT
                   !.pc = "dimsResolved", !.imageUrl = "revoked",
                   !.dimensions = Some(<<ImgWidth(conv.file.src),
                                         ImgHeight(conv.file.src)>>)]
     \/ conv' = [conv EXCEPT
                   !.pc = "dimsRejected", !.imageUrl = "revoked",
                   !.error = Some("Failed to load image")]
  /\ UNCHANGED <<validation, state, urls, nextFile, runs, edits>>

ConvNext == ConvLoadSettled \/ ConvBlobSettled \/ ConvDimensionsSettled

\* One call of convertImageFormat, on any name and any format tag, or one
\* call of getImageDimensions.
ConvSpec == ConvInit /\ [][ConvNext]_vars

\* ------------------------------------------------- clientSideValidation.ts

\* The most resource entries the performance timeline gets during a call of
\* runAllValidationTests.
MaxResources == 2

testNames == <<"Format Conversion", "Image Resizing", "Image Compression">>

successMessages ==
  <<"Successfully converted PNG to JPG", "Successfully resized image to 100x100",
    "Successfully compressed image">>

errorMessages ==
  <<"Error during format conversion: ", "Error during image resizing: ",
    "Error during image compression: ">>

\* The sides of the square test images of the three checks.
testImageSizes == <<100, 200, 300>>

\* createTestImage(width, height): the File 'test-image.png' made of what
\* canvas.toBlob gave, a PNG or null.
createTestImage(width, height, content) ==
  [src |-> 0,
   name |-> <<"t", "e", "s", "t", "-", "i", "m", "a", "g", "e", ".", "p", "n", "g">>,
   type |-> "image/png", resized |-> Undefined, quality |-> Undefined,
   width |-> width, height |-> height, content |-> content]

\* The options of the convertImageFormat call of testFormatConversion.
testOptions ==
  [format |-> jpg, quality |-> Some(80), width |-> Undefined,
   height |-> Undefined, maintainAspectRatio |-> Undefined]

\* A mutant of allTestsPassed: the network flag is not looked at.
allTestsPassedIgnoringNetwork(results) ==
  \A x \in 1..Len(results) : results[x].success

\* results.every(r => r.success && !r.networkRequestsMade)
allTestsPassed(results) ==
  \A x \in 1..Len(results) :
    results[x].success /\ ~results[x].networkRequestsMade

\* The check of v has returned result: the next check starts, or after the
\* third runAllValidationTests names the three results and returns.
Report(v, result) ==
  LET rs == Append(v.results, result)
      named == [x \in 1..Len(rs) |->
                  [test |-> testNames[x], success |-> rs[x].success,
                   message |-> rs[x].message,
                   networkRequestsMade |-> rs[x].networkRequestsMade]]
      v1 == [v EXCEPT !.testFile = Undefined, !.call = Undefined]
  IN  IF v.test = 3
      THEN [v1 EXCEPT !.results = named, !.pc = "done",
                      !.allTestsPassed = Some(allTestsPassed(named))]
      ELSE [v1 EXCEPT !.results = rs, !.test = @ + 1, !.pc = "create"]

\* A mutant of TestFailed: the check throws the error on.
TestFailedRethrow(v, error) ==
  [v EXCEPT !.threw = @ \cup {v.test}, !.pc = "rejected"]

\* A mutant of TestFailed: the failed check reports what the timeline shows.
TestFailedWithNetwork(v, error) ==
  Report([v EXCEPT !.threw = @ \cup {v.test}],
         [success |-> FALSE, message |-> <<errorMessages[v.test], error>>,
          networkRequestsMade |-> v.networkBefore # v.resources])

\* The catch of a check: its helper threw error.
TestFailed(v, error) ==
  Report([v EXCEPT !.threw = @ \cup {v.test}],
         [success |-> FALSE, message |-> <<errorMessages[v.test], error>>,
          networkRequestsMade |-> FALSE])

\* The helper of a check resolved: the timeline is read again and compared.
TestSucceeded(v) ==
  Report(v, [success |-> TRUE, message |-> <<successMessages[v.test], "bytes">>,
             networkRequestsMade |-> v.networkBefore # v.resources])

\* runAllValidationTests has been called: testFormatConversion waits for
\* its test image.
ValidationInit ==
  /\ state = InitialState
  /\ urls = [created |-> {}, revoked |-> {}]
  /\ nextFile = 1
  /\ runs = <<>>
  /\ edits = 0
  /\ conv = NoCall
  /\ validation = [NoValidation EXCEPT !.pc = "create", !.test = 1]

\* The page loads a resource: the performance timeline gets an entry.
ResourceLoaded ==
  /\ validation.pc \in {"create", "load", "blob", "helper"}
  /\ validation.resources < MaxResources
  /\ validation' = [validation EXCEPT !.resources = @ + 1]
  /\ UNCHANGED <<state, urls, nextFile, runs, edits, conv>>

\* createTestImage resolved: the check reads the timeline and calls its
\* helper, convertImageFormat (which throws at once without a 2D context),
\* resizeImage or compressImage.
TestImageCreated ==
  /\ validation.pc = "create"
  /\ \E content \in {"png", "null"}, ctx \in BOOLEAN :
       LET size == testImageSizes[validation.test]
           file == createTestImage(size, size, content)
           v == [validation EXCEPT !.testFile = Some(file),
                                   !.networkBefore = validation.resources]
           call == ConvertCall(file, testOptions, ctx)
       IN  IF validation.test = 1
           THEN IF call.pc = "rejected"
                THEN validation' = TestFailed(v, Get(call.error))
                ELSE validation' = [v EXCEPT !.call = Some(call), !.pc = "load"]
           ELSE ctx /\ validation' = [v EXCEPT !.pc = "helper"]
  /\ UNCHANGED <<state, urls, nextFile, runs, edits, conv>>

\* The image of testFormatConversion's convertImageFormat call loaded, or,
\* the file being no image, failed to.
ValidationLoadSettled ==
  /\ validation.pc = "load"
  /\ LET call == Get(validation.call) IN
     IF Get(validation.testFile).content = "png"
     THEN validation' =
            [validation EXCEPT
               !.call = Some([call EXCEPT !.pc = "blob", !.loaded = Some(TRUE),
                                          !.imageUrl = "revoked"]),
               !.pc = "blob"]
     ELSE validation' =
            TestFailed(validation,
                       Get(ConvFailed([call EXCEPT
                                         !.loaded = Some(FALSE),
                                         !.raised = Some("error event")]).error))
  /\ UNCHANGED <<state, urls, nextFile, runs, edits, conv>>

\* The toBlob callback of that call ran: convertImageFormat resolves.
ValidationBlobSettled ==
  /\ validation.pc = "blob"
  /\ validation' = TestSucceeded(validation)
  /\ UNCHANGED <<state, urls, nextFile, runs, edits, conv>>

\* resizeImage or compressImage settled: its library resolved, or rejected
\* (as it does when the file is no image) and the helper's catch rethrew.
HelperSettled ==
  /\ validation.pc = "helper"
  /\ \/ /\ Get(validation.testFile).content = "png"
        /\ validation' = TestSucceeded(validation)
     \/ validation' = TestFailed(validation, "library error")
  /\ UNCHANGED <<state, urls, nextFile, runs, edits, conv>>

ValidationNext ==
  \/ ResourceLoaded
  \/ TestImageCreated
  \/ ValidationLoadSettled
  \/ ValidationBlobSettled
  \/ HelperSettled

\* One call of runAllValidationTests.
ValidationSpec == ValidationInit /\ [][ValidationNext]_vars

\* ------------------------------------------------------------------ claims

RECURSIVE KeptFrom(_, _, _)
\* The files of a processBatch call, from position x on, whose processing
\* did not throw, in their order.
KeptFrom(files, failed, x) ==
  IF x > Len(files) THEN <<>>
  ELSE (IF (x - 1) \in failed THEN <<>> ELSE <<files[x]>>)
       \o KeptFrom(files, failed, x + 1)

\* C1: a processBatch call never rejects; called with N files of which k
\* fail, it resolves with N - k results, and these are the conversions of the
\* files that did not fail, in the order of the input.
C1_BatchResolvesWithSurvivors ==
  \A x \in 1..Len(runs) :
    runs[x].lastCall # {} =>
      LET call == Get(runs[x].lastCall)
          kept == KeptFrom(call.files, call.failed, 1)
      IN  /\ call.outcome = "resolved"
          /\ Len(call.results) = Len(call.files) - Cardinality(call.failed)
          /\ Len(call.results) = Len(kept)
          /\ \A j \in 1..Len(kept) :
                /\ call.results[j].src = kept[j].src
                /\ call.results[j].name =
                     SubSeq(kept[j].name, 1, 1) \o <<".">> \o runs[x].options.format
                /\ call.results[j].type = formatMap[runs[x].options.format]

\* A call with three files, of which only the first failed, has settled.
C1_Witness ==
  \E x \in 1..Len(runs) :
    /\ runs[x].lastCall # {}
    /\ Len(Get(runs[x].lastCall).files) = 3
    /\ Get(runs[x].lastCall).failed = {0}
    /\ Len(Get(runs[x].lastCall).results) = 2

\* C9: a run over N files makes ceil(N/3) processBatch calls; call number c
\* (from 1) is given the entries at positions 3(c-1) to min(3c, N) - 1, and
\* is made only when every earlier call has settled.
C9_ChunksOfThree ==
  \A x \in 1..Len(runs) :
    LET r == runs[x]
        N == Len(r.files)
    IN  /\ r.pc # "done" =>
              /\ r.calls >= 1
              /\ r.settled = r.calls - 1
              /\ 3 * (r.calls - 1) < N
              /\ r.batch = [j \in 1..(Min(3 * r.calls, N) - 3 * (r.calls - 1)) |->
                               r.files[3 * (r.calls - 1) + j]]
        /\ r.pc = "done" =>
              /\ r.settled = r.calls
              /\ 3 * r.calls >= N
              /\ 3 * r.calls < N + 3

\* A run over four files has made its second call, with the fourth file.
C9_Witness ==
  \E x \in 1..Len(runs) :
    /\ Len(runs[x].files) = 4
    /\ runs[x].calls = 2
    /\ runs[x].pc # "done"
    /\ runs[x].batch = <<runs[x].files[4]>>

\* C10: for each file of processBatch, resizeImage is called iff a width or
\* a height is set, and before convertImageFormat; a dimension that is not
\* set is the original image's; convertImageFormat is given what resizeImage
\* resolved with, or the original file when there was no resize.
C10_ResizeThenConvert ==
  \A x \in 1..Len(runs) :
    LET r == runs[x]
        w == r.options.width
        h == r.options.height
        sized == w # {} \/ h # {}
    IN  r.pc # "done" =>
          LET file == r.batch[r.k + 1]
              box == <<IF w # {} THEN Get(w) ELSE ImgWidth(file.src),
                       IF h # {} THEN Get(h) ELSE ImgHeight(file.src)>>
          IN  /\ r.pc \in {"dims", "resize"} => sized /\ r.processedFile = Some(file)
              /\ r.pc = "dims" => w = {} \/ h = {}
              /\ r.pc = "resize" => <<Get(r.targetWidth), Get(r.targetHeight)>> = box
              /\ r.pc \in {"load", "blob"} =>
                    r.processedFile =
                      Some(IF sized THEN [file EXCEPT !.resized = Some(box)] ELSE file)
              /\ \A j \in 1..Len(r.results) : (r.results[j].resized # {}) = sized

\* With only a width set, a file was resized to that width and its own
\* height, and convertImageFormat is at work on the resized file.
C10_Witness ==
  \E x \in 1..Len(runs) :
    /\ runs[x].pc = "load"
    /\ runs[x].options.width = Some(50)
    /\ runs[x].options.height = {}
    /\ Get(runs[x].processedFile).resized =
         Some(<<50, ImgHeight(Get(runs[x].processedFile).src)>>)

\* The files of the entries of the list, in order.
ListedFiles == [x \in 1..Len(state.files) |-> state.files[x].file]

\* C2: when a run has finished, each entry whose processing failed has status
\* 'error' and no result, and each entry whose processing succeeded has
\* status 'completed' (said of a finished run whose files are still the list).
C2_FailedEntriesMarkedError ==
  \A x \in 1..Len(runs) :
    (runs[x].pc = "done" /\ runs[x].files = ListedFiles) =>
      \A y \in 1..Len(state.files) :
        IF (y - 1) \in runs[x].failed
        THEN state.files[y].status = "error" /\ state.files[y].result = {}
        ELSE state.files[y].status = "completed"

\* The runs of the state that have returned.
Returned(rs) == {x \in 1..Len(rs) : rs[x].pc = "done"}

\* C3: every run ends by setting the step to 'download' and the progress to
\* 100: the state in which a run returns has both, and while runs wait for
\* helpers, if the helper calls settle, a state comes in which they have all
\* returned, whichever of their files failed, with the step 'download' and
\* the progress 100.
C3_RunEndsAtDownload ==
  /\ [][Cardinality(Returned(runs')) > Cardinality(Returned(runs)) =>
          state'.step = "download" /\ state'.progress = 100]_vars
  /\ (InFlight # <<>>)
       ~> (InFlight = <<>> /\ state.step = "download" /\ state.progress = 100)

\* A run over two files, both of which failed, has returned and the step is
\* 'download' at progress 100.
C3_Witness ==
  \E x \in 1..Len(runs) :
    /\ runs[x].pc = "done"
    /\ Len(runs[x].files) = 2
    /\ runs[x].failed = {0, 1}
    /\ state.step = "download"
    /\ state.progress = 100

\* C4: once the list has been reset while a run was in flight, no later step
\* of that run changes the step, the progress or an entry of the list.
C4_AbandonedRunDiscarded ==
  [][\A x \in 1..Len(runs) :
       (/\ Len(runs') = Len(runs)
        /\ runs'[x] # runs[x]
        /\ runs[x].files # ListedFiles)
       => /\ state'.step = state.step
          /\ state'.progress = state.progress
          /\ state'.files = state.files]_vars

\* C5: the step changes only to a neighbour in home, format, size, confirm,
\* progress, download, or by the reset to 'home' (startConversion makes its
\* moves, to 'progress' and at its end to 'download', within one handler
\* when it has nothing to wait for).
C5_StepsAreLinear ==
  [][state'.step # state.step =>
       \/ state'.step = "home" /\ state.step \in {"progress", "download"}
       \/ StepIndex(state'.step) - StepIndex(state.step) \in {-1, 1}
       \/ /\ state.step = "confirm"
          /\ state'.step = "download"
          /\ Len(runs') = Len(runs) + 1]_vars

\* C6: startOver (the only move from 'progress' or 'download' to 'home')
\* leaves the step 'home', an empty list, progress 0 and the default options,
\* and the preview of every entry that was in the list is revoked.
C6_StartOverResets ==
  [][(state.step \in {"progress", "download"} /\ state'.step = "home") =>
       /\ state'.files = <<>>
       /\ state'.progress = 0
       /\ state'.options.format = <<"j", "p", "g">>
       /\ state'.options.quality = {80}
       /\ state'.options.maintainAspectRatio = {TRUE}
       /\ state'.options.width = {}
       /\ state'.options.height = {}
       /\ \A x \in 1..Len(state.files) :
            state.files[x].preview \in urls'.revoked]_vars

\* startOver has run on a list of three entries whose options had been
\* changed: the three previews are revoked and the state is the initial one.
C6_Witness ==
  /\ state.step = "home"
  /\ state.files = <<>>
  /\ urls.revoked = {1, 2, 3}
  /\ edits = 1
  /\ state.options = DefaultOptions

\* The nine tags convertImageFormat has an image encoding for.
SupportedTags == {jpg, jpeg, png, webp, gif, bmp, tiff, ico, heif}

\* A name has an extension when a dot follows at least one character (a
\* leading dot names a hidden file, it begins no extension).
HasExtension(name) == \E p \in 2..Len(name) : name[p] = "."

\* The name without its last extension.
Stem(name) ==
  IF HasExtension(name)
  THEN LET p == CHOOSE q \in 2..Len(name) :
                  name[q] = "." /\ \A z \in (q + 1)..Len(name) : name[z] # "."
       IN  SubSeq(name, 1, p - 1)
  ELSE name

\* C7: for a supported tag F in any letter case and any file name, the file
\* convertImageFormat resolves with is named as the input with its last
\* extension replaced by lower-cased F (F appended when there is none), and
\* its type is F's MIME type.
C7_NameAndTypeFollowFormat ==
  (conv.pc = "resolved" /\ ToLowerCase(conv.options.format) \in SupportedTags) =>
    LET F == ToLowerCase(conv.options.format)
        out == Get(conv.result)
    IN  /\ out.name = Stem(conv.file.name) \o <<".">> \o F
        /\ out.type = formatMap[F]
        /\ F \in {jpg, jpeg} => out.type = "image/jpeg"
        /\ F = png => out.type = "image/png"
        /\ F = ico => out.type = "image/x-icon"

\* "a.B" was converted to "PNG": the result is "a.png" of type image/png.
C7_Witness ==
  /\ conv.pc = "resolved"
  /\ conv.file.name = <<"a", ".", "B">>
  /\ conv.options.format = <<"P", "N", "G">>
  /\ Get(conv.result).name = <<"a", ".", "p", "n", "g">>
  /\ Get(conv.result).type = "image/png"

\* C8 as the specification states it: for PDF and for every tag outside the
\* supported list, the converted file's type is 'image/jpeg'.
C8_UnsupportedFallsBackToJpeg ==
  (conv.pc = "resolved" /\ ToLowerCase(conv.options.format) \notin SupportedTags) =>
    Get(conv.result).type = "image/jpeg"

\* C8, amended: 'pdf' has an entry of its own and gives 'application/pdf'; a
\* tag whose lower-cased form is neither a key of the table nor the name of
\* a member of Object.prototype gives 'image/jpeg'.
C8_PdfHasOwnTypeOthersJpeg ==
  conv.pc = "resolved" =>
    LET F == ToLowerCase(conv.options.format)
        out == Get(conv.result)
    IN  /\ F = pdf => out.type = "application/pdf"
        /\ (F \notin SupportedTags \cup {pdf} \cup ProtoKeys) => out.type = "image/jpeg"

\* A file was converted to "Pdf": the result is declared application/pdf.
C8_Witness ==
  /\ conv.pc = "resolved"
  /\ conv.options.format = <<"P", "d", "f">>
  /\ Get(conv.result).type = "application/pdf"
  /\ Get(conv.result).name = conv.file.name \o <<".", "p", "d", "f">>

\* The preview URLs of the entries of the list.
ListedPreviews == {state.files[x].preview : x \in 1..Len(state.files)}

\* C11: a preview URL that was created is unrevoked iff it is the preview of
\* an entry of the list: none of an entry that is gone stays live and no
\* entry of the list has a revoked one.
C11_LivePreviewsAreListed ==
  (urls.created \ urls.revoked) = ListedPreviews

\* After a start over that revoked previews, two files were added again and
\* the user went back to the home step: their previews are live.
C11_Witness ==
  /\ urls.revoked # {}
  /\ Len(state.files) = 2
  /\ state.step = "home"
  /\ ListedPreviews \cap urls.revoked = {}

\* C12: while a run is in flight no action changes the options of the state,
\* and the run goes on with the options it started with.
C12_OptionsFrozenDuringRun ==
  [][\A x \in 1..Len(runs) :
       runs[x].pc # "done" =>
         /\ state'.options = state.options
         /\ \E y \in 1..Len(runs') :
              /\ runs'[y].files = runs[x].files
              /\ runs'[y].options = runs[x].options]_vars

\* C13: for a quality q in 0..100 in the options convertImageFormat encodes
\* at q percent, and at the default 80 percent only when there is none.
C13_EncodesAtGivenQuality ==
  conv.pc = "resolved" =>
    LET q == conv.options.quality
        out == Get(conv.result)
    IN  /\ q = {} => out.quality = Some(80)
        /\ (q # {} /\ Get(q) \in 0..100) => out.quality = q

\* C14: the quality of the options is always within 0 to 100, and no run
\* has convertImageFormat at work with a quality above 100.
C14_QualityWithinPercent ==
  /\ state.options.quality # {} => Get(state.options.quality) \in 0..100
  /\ \A x \in 1..Len(runs) :
       (runs[x].pc \in {"load", "blob"} /\ runs[x].options.quality # {}) =>
         Get(runs[x].options.quality) \in 0..100

\* C15: convertImageFormat rejects, with no output file, when the 2D context
\* could not be made and when the image failed to load; it rejects with the
\* error that was raised, and a call that resolved had neither failure.
C15_ConvertRejectsWithRaisedError ==
  /\ (~conv.ctx \/ conv.loaded = Some(FALSE)) =>
        /\ conv.pc = "rejected"
        /\ conv.result = {}
        /\ conv.raised # {}
        /\ conv.error = conv.raised
  /\ ~conv.ctx => conv.error = Some("Could not create canvas context")
  /\ conv.loaded = Some(FALSE) => conv.error = Some("error event")
  /\ conv.result # {} =>
        conv.pc = "resolved" /\ conv.ctx /\ conv.loaded = Some(TRUE) /\ conv.error = {}

\* A call whose image failed to load has rejected with the error event.
C15_Witness ==
  /\ conv.pc = "rejected"
  /\ conv.ctx
  /\ conv.loaded = Some(FALSE)
  /\ conv.error = Some("error event")

\* The number of files of run r whose processing has ended, well or not
\* (processedCount has the results of the calls that settled).
Ended(r) ==
  r.processedCount + Cardinality(r.failed)
    + (IF r.pc = "done" THEN 0 ELSE Len(r.results))

\* C16: a run processes its files one at a time in list order: the files
\* begun so far are the first files of the list, each begun once, and a file
\* is begun only when every file before it has succeeded or failed.
C16_OneFileAtATime ==
  \A x \in 1..Len(runs) :
    LET r == runs[x] IN
    /\ Len(r.started) <= Len(r.files)
    /\ \A j \in 1..Len(r.started) : r.started[j] = r.files[j].src
    /\ \A j, l \in 1..Len(r.started) : r.started[j] = r.started[l] => j = l
    /\ r.pc = "done" => Len(r.started) = Len(r.files) /\ Ended(r) = Len(r.files)
    /\ r.pc # "done" => Len(r.started) = Ended(r) + 1

\* A run over four files is at work on the fourth; of the first three, one
\* failed and two succeeded.
C16_Witness ==
  \E x \in 1..Len(runs) :
    /\ Len(runs[x].started) = 4
    /\ runs[x].pc = "load"
    /\ Cardinality(runs[x].failed) = 1
    /\ runs[x].processedCount = 2

\* C17: an entry of the list that holds a result holds the conversion of its
\* own file.
C17_ResultIsOfOwnFile ==
  \A x \in 1..Len(state.files) :
    state.files[x].result # {} =>
      Get(state.files[x].result).src = state.files[x].file.src

\* C18: on the download step the progress is 100 and no entry of the list is
\* 'pending' or 'processing'.
C18_DownloadMeansAllSettled ==
  state.step = "download" =>
    /\ state.progress = 100
    /\ \A x \in 1..Len(state.files) :
         state.files[x].status \notin {"pending", "processing"}

\* C19: onDrop (the only move from 'home' to 'format', and the only action
\* that takes new files) appends one entry for each accepted file, in the
\* given order, at the end of the list: 'pending', with a preview URL not
\* made before, and no result or error; the entries that were there, the
\* options and the progress stay as they were.
C19_OnDropAppendsPending ==
  [][/\ nextFile' # nextFile => state.step = "home" /\ state'.step = "format"
     /\ (state.step = "home" /\ state'.step = "format") =>
          LET old == Len(state.files)
              n == nextFile' - nextFile
          IN  /\ n >= 0
              /\ Len(state'.files) = old + n
              /\ SubSeq(state'.files, 1, old) = state.files
              /\ \A j \in 1..n :
                   LET e == state'.files[old + j] IN
                   /\ e.file = UserFile(nextFile + j - 1)
                   /\ e.status = "pending"
                   /\ e.result = {}
                   /\ e.error = {}
                   /\ e.preview \notin urls.created
                   /\ e.preview \in urls'.created \ urls'.revoked
                   /\ \A l \in 1..n : state'.files[old + l].preview = e.preview => l = j
              /\ state'.options = state.options
              /\ state'.progress = state.progress]_vars

\* After a start over that revoked the first file's preview, two files were
\* dropped: the list has them in order, pending, with new previews.
C19_Witness ==
  /\ state.step = "format"
  /\ urls.revoked = {1}
  /\ Len(state.files) = 2
  /\ state.files[1].file = UserFile(2) /\ state.files[2].file = UserFile(3)
  /\ \A x \in 1..2 : state.files[x].status = "pending"

\* C20: off the home step the list is not empty, and no run was started
\* over an empty list.
C20_ListNonEmptyOffHome ==
  /\ state.step # "home" => state.files # <<>>
  /\ \A x \in 1..Len(runs) : runs[x].files # <<>>

\* C21: when a call of convertImageFormat or of getImageDimensions has
\* settled, resolved or rejected, the object URL it made is revoked.
C21_HelperUrlsRevoked ==
  conv.pc \in {"resolved", "rejected", "dimsResolved", "dimsRejected"} =>
    conv.imageUrl # "live"

\* C22: the flag processBatch passes to resizeImage is
\* options.maintainAspectRatio, and true only when the option is absent.
C22_AspectFlagIsTheOption ==
  \A x \in 1..Len(runs) :
    runs[x].aspectFlag # {} =>
      Get(runs[x].aspectFlag) =
        (IF runs[x].options.maintainAspectRatio = {} THEN TRUE
         ELSE Get(runs[x].options.maintainAspectRatio))

\* C23: runAllValidationTests never rejects; when it has returned there are
\* three results, named Format Conversion, Image Resizing and Image
\* Compression in this order; a check whose helper threw, and only such a
\* check, reports success false, with networkRequestsMade false, and the
\* checks after it were still made; allTestsPassed is true iff every result
\* has success true and networkRequestsMade false.
C23_ValidationReportsEveryCheck ==
  /\ validation.pc # "rejected"
  /\ validation.threw \subseteq 1..Len(validation.results)
  /\ \A x \in 1..Len(validation.results) :
       LET result == validation.results[x] IN
       /\ result.success = (x \notin validation.threw)
       /\ ~result.success => ~result.networkRequestsMade
  /\ validation.pc = "done" =>
       /\ Len(validation.results) = 3
       /\ validation.results[1].test = "Format Conversion"
       /\ validation.results[2].test = "Image Resizing"
       /\ validation.results[3].test = "Image Compression"
       /\ validation.allTestsPassed # {}
       /\ Get(validation.allTestsPassed) =
            (\A x \in 1..3 : /\ validation.results[x].success = TRUE
                             /\ validation.results[x].networkRequestsMade = FALSE)

\* The call has returned: the first check's helper threw, the two others
\* succeeded, a resource was loaded during the second, and not all passed.
C23_Witness ==
  /\ validation.pc = "done"
  /\ validation.threw = {1}
  /\ ~validation.results[1].success
  /\ validation.results[2].success /\ validation.results[2].networkRequestsMade
  /\ validation.results[3].success /\ ~validation.results[3].networkRequestsMade
  /\ validation.allTestsPassed = Some(FALSE)

\* The call has returned with every check passed, though a resource was
\* loaded while a test image was being made.
C23_WitnessAllPassed ==
  /\ validation.pc = "done"
  /\ validation.resources > 0
  /\ validation.allTestsPassed = Some(TRUE)

====
